---------------------------- MODULE Spec2Model ----------------------------
(***************************************************************************)
(* Model of src/src/using_python.py: TemperatureProcessor, which streams   *)
(* a "name;value" text file, keeps per-station minimum, maximum, sum and   *)
(* count in four maps, and returns a sorted, formatted report.             *)
(*                                                                         *)
(* Text is modelled as sequences of one-character strings.  A Python float *)
(* is modelled as a record [kind, neg, mag]: kind "fin" with magnitude mag *)
(* counted in tenths and sign bit neg (so 0.0 and -0.0 are distinct, as in *)
(* IEEE 754), kind "inf" with its sign, or kind "nan".  Every numeric      *)
(* literal of the sampled inputs is a multiple of 0.5, so that it, every   *)
(* sum and every tie of the one-digit rounding is exact in binary floating *)
(* point and the arithmetic below is the arithmetic of the program.        *)
(***************************************************************************)
EXTENDS Integers, Sequences, FiniteSets, TLC

\* ------------------------------------------------------------------------
\* Bounds of the model
\* ------------------------------------------------------------------------

\* Longest input file, in lines.
MaxLinhas == 3

\* Calls of processar() on one instance (SpecRerun only).
MaxChamadas == 3

\* ------------------------------------------------------------------------
\* Text
\* ------------------------------------------------------------------------

\* The pseudo-character standing for a byte that is not valid UTF-8.
ByteInvalido == "\\xff"

\* Unicode code points of the characters the sampled inputs use.
Ord(c) ==
    CASE c = " " -> 32
      [] c = "+" -> 43
      [] c = "-" -> 45
      [] c = "." -> 46
      [] c = "0" -> 48
      [] c = "1" -> 49
      [] c = "2" -> 50
      [] c = "3" -> 51
      [] c = "4" -> 52
      [] c = "5" -> 53
      [] c = "6" -> 54
      [] c = "7" -> 55
      [] c = "8" -> 56
      [] c = "9" -> 57
      [] c = ";" -> 59
      [] c = "A" -> 65
      [] c = "B" -> 66
      [] c = "a" -> 97
      [] c = "e" -> 101
      [] c = "f" -> 102
      [] c = "i" -> 105
      [] c = "n" -> 110
      [] c = "x" -> 120
      [] OTHER -> 255

\* str < str of Python: lexicographic on code points, a proper prefix first.
RECURSIVE StrLt(_, _)
StrLt(s, t) ==
    IF t = <<>> THEN FALSE
    ELSE IF s = <<>> THEN TRUE
    ELSE IF Ord(Head(s)) # Ord(Head(t)) THEN Ord(Head(s)) < Ord(Head(t))
    ELSE StrLt(Tail(s), Tail(t))

IsSpace(c) == c = " "

RECURSIVE LStrip(_)
LStrip(s) == IF s # <<>> /\ IsSpace(Head(s)) THEN LStrip(Tail(s)) ELSE s

RECURSIVE RStrip(_)
RStrip(s) ==
    IF s # <<>> /\ IsSpace(s[Len(s)]) THEN RStrip(SubSeq(s, 1, Len(s) - 1)) ELSE s

\* str.strip()
Strip(s) == RStrip(LStrip(s))

\* Index of the first occurrence of c in s, or 0.
RECURSIVE Find(_, _, _)
Find(s, c, i) ==
    IF i > Len(s) THEN 0 ELSE IF s[i] = c THEN i ELSE Find(s, c, i + 1)

\* csv.reader(file, delimiter=';') on one line without quotes: an empty line
\* gives the empty row, any other line its fields between the delimiters.
RECURSIVE Fields(_)
Fields(s) ==
    LET i == Find(s, ";", 1)
    IN  IF i = 0 THEN <<s>>
        ELSE <<SubSeq(s, 1, i - 1)>> \o Fields(SubSeq(s, i + 1, Len(s)))

CsvRow(line) == IF line = <<>> THEN <<>> ELSE Fields(line)

\* Whether the text layer can decode the line as UTF-8.
Decodable(line) == \A i \in 1..Len(line) : line[i] # ByteInvalido

\* ------------------------------------------------------------------------
\* Floats
\* ------------------------------------------------------------------------

Fin(neg, mag) == [kind |-> "fin", neg |-> neg, mag |-> mag]
Inf(neg) == [kind |-> "inf", neg |-> neg, mag |-> 0]
NaN == [kind |-> "nan", neg |-> FALSE, mag |-> 0]

\* float("inf"), float("-inf") and float(): the defaults of the three maps.
PosInf == Inf(FALSE)
NegInf == Inf(TRUE)
Zero == Fin(FALSE, 0)

\* The signed value in tenths of a finite float (0.0 and -0.0 both give 0).
Val(x) == IF x.neg THEN 0 - x.mag ELSE x.mag

\* x < y on floats: false when either is NaN, -0.0 = 0.0.
FloatLt(x, y) ==
    IF x.kind = "nan" \/ y.kind = "nan" THEN FALSE
    ELSE IF x.kind = "inf" THEN x.neg /\ ~(y.kind = "inf" /\ y.neg)
    ELSE IF y.kind = "inf" THEN ~y.neg
    ELSE Val(x) < Val(y)

FloatLe(x, y) ==
    /\ x.kind # "nan"
    /\ y.kind # "nan"
    /\ ~FloatLt(y, x)

\* min(a, b) and max(a, b) of Python: b only when b < a (b > a), else a.
PyMin(a, b) == IF FloatLt(b, a) THEN b ELSE a
PyMax(a, b) == IF FloatLt(a, b) THEN b ELSE a

\* a + b on floats.
FloatAdd(a, b) ==
    IF a.kind = "nan" \/ b.kind = "nan" THEN NaN
    ELSE IF a.kind = "inf" /\ b.kind = "inf"
         THEN (IF a.neg = b.neg THEN a ELSE NaN)
    ELSE IF a.kind = "inf" THEN a
    ELSE IF b.kind = "inf" THEN b
    ELSE LET v == Val(a) + Val(b)
         IN  IF v = 0 THEN Fin(a.neg /\ b.neg, 0)
             ELSE IF v < 0 THEN Fin(TRUE, 0 - v) ELSE Fin(FALSE, v)

IsDigit(c) == c \in {"0", "1", "2", "3", "4", "5", "6", "7", "8", "9"}
DigitVal(c) == Ord(c) - 48

AllDigits(s) == \A i \in 1..Len(s) : IsDigit(s[i])

\* The number a digit string denotes.
RECURSIVE Digits(_)
Digits(s) ==
    IF s = <<>> THEN 0
    ELSE 10 * Digits(SubSeq(s, 1, Len(s) - 1)) + DigitVal(s[Len(s)])

RECURSIVE Pow10(_)
Pow10(n) == IF n <= 0 THEN 1 ELSE 10 * Pow10(n - 1)

\* The result of float(...) on a string that is no number: ValueError.
ValueError == [kind |-> "ValueError", neg |-> FALSE, mag |-> 0]

\* The unsigned body of a float literal: "inf", "infinity", "nan", or
\* digits with an optional point and an optional exponent (at least one
\* digit in the mantissa, at least one in the exponent).
FloatBody(neg, s) ==
    IF s = <<"n", "a", "n">> THEN NaN
    ELSE IF s = <<"i", "n", "f">> \/ s = <<"i", "n", "f", "i", "n", "i", "t", "y">>
         THEN Inf(neg)
    ELSE
    LET e    == Find(s, "e", 1)
        man  == IF e = 0 THEN s ELSE SubSeq(s, 1, e - 1)
        ex   == IF e = 0 THEN <<>> ELSE SubSeq(s, e + 1, Len(s))
        exNeg == ex # <<>> /\ Head(ex) = "-"
        exDig == IF ex # <<>> /\ Head(ex) \in {"+", "-"} THEN Tail(ex) ELSE ex
        p    == Find(man, ".", 1)
        int  == IF p = 0 THEN man ELSE SubSeq(man, 1, p - 1)
        frac == IF p = 0 THEN <<>> ELSE SubSeq(man, p + 1, Len(man))
        okMan == AllDigits(int) /\ AllDigits(frac) /\ Len(int) + Len(frac) > 0
        okEx  == e = 0 \/ (exDig # <<>> /\ AllDigits(exDig))
        expo == IF exNeg THEN 0 - Digits(exDig) ELSE Digits(exDig)
        \* tenths = digits(int frac) * 10^(expo - Len(frac) + 1)
        sh   == expo - Len(frac) + 1
        n    == Digits(int \o frac)
    IN  IF ~(okMan /\ okEx) THEN ValueError
        ELSE IF sh >= 0 THEN Fin(neg, n * Pow10(sh))
        ELSE Fin(neg, n \div Pow10(0 - sh))

\* float(s) of Python for a str: surrounding whitespace is stripped, then an
\* optional sign, then the body.
PyFloat(s) ==
    LET t == Strip(s)
    IN  IF t = <<>> THEN ValueError
        ELSE IF Head(t) = "-" THEN FloatBody(TRUE, Tail(t))
        ELSE IF Head(t) = "+" THEN FloatBody(FALSE, Tail(t))
        ELSE FloatBody(FALSE, t)

\* The decimal digits of a natural number.
RECURSIVE NatStr(_)
NatStr(n) ==
    LET d == <<"0", "1", "2", "3", "4", "5", "6", "7", "8", "9">>[(n % 10) + 1]
    IN  IF n < 10 THEN <<d>> ELSE NatStr(n \div 10) \o <<d>>

\* num/den rounded to the nearest integer, a tie to the even one: the
\* rounding of format(x, ".1f") on a value that is exact in binary.
RoundHalfEven(num, den) ==
    LET q == num \div den
        r == num % den
    IN  IF 2 * r > den THEN q + 1
        ELSE IF 2 * r < den THEN q
        ELSE IF q % 2 = 0 THEN q ELSE q + 1

\* f"{x:.1f}" for the float whose value is x / den (den = 1 for a stored
\* minimum or maximum, den = the count for a mean).
Fmt1f(x, den) ==
    IF x.kind = "nan" THEN <<"n", "a", "n">>
    ELSE IF x.kind = "inf"
         THEN (IF x.neg THEN <<"-">> ELSE <<>>) \o <<"i", "n", "f">>
    ELSE LET t == RoundHalfEven(x.mag, den)
         IN  (IF x.neg THEN <<"-">> ELSE <<>>)
                 \o NatStr(t \div 10) \o <<".">> \o NatStr(t % 10)

\* ------------------------------------------------------------------------
\* Maps
\* ------------------------------------------------------------------------

\* An empty dict, and d with d[k] = v set.
Vazio == [k \in {} |-> Zero]
Put(d, k, v) == [j \in DOMAIN d \cup {k} |-> IF j = k THEN v ELSE d[j]]

\* d[k] on a defaultdict: the stored value, or the default, which the read
\* also stores (Touch is the dict after the read).
Get(d, k, padrao) == IF k \in DOMAIN d THEN d[k] ELSE padrao
Touch(d, k, padrao) == IF k \in DOMAIN d THEN d ELSE Put(d, k, padrao)

\* The four maps of __init__, empty; ordem is the insertion order of the
\* keys of the Counter medicoes (a dict iterates in insertion order).
TabelaVazia ==
    [minimas  |-> Vazio,
     maximas  |-> Vazio,
     somas    |-> Vazio,
     medicoes |-> [k \in {} |-> 0],
     ordem    |-> <<>>]

\* ------------------------------------------------------------------------
\* _parse_row, _atualizar_estatisticas, _gerar_resultados
\* ------------------------------------------------------------------------

ParseOk(nome, temperatura) ==
    [ok |-> TRUE, erro |-> "none", nome |-> nome, temperatura |-> temperatura]
ParseFail(erro) ==
    [ok |-> FALSE, erro |-> erro, nome |-> <<>>, temperatura |-> ValueError]

\* _parse_row: IndexError on fewer than 2 columns, ValueError when float()
\* refuses the second column, else (row[0].strip(), float(row[1])).
ParseRow(row) ==
    IF Len(row) < 2 THEN ParseFail("IndexError")
    ELSE LET temperatura == PyFloat(row[2])
         IN  IF temperatura.kind = "ValueError" THEN ParseFail("ValueError")
             ELSE ParseOk(Strip(row[1]), temperatura)

\* ContarMedicao with the count stored instead of added: medicoes[nome] = 1.
ContarMedicaoSemSomar(t, nome) ==
    [t EXCEPT !.medicoes = Put(t.medicoes, nome, 1),
              !.ordem = IF nome \in DOMAIN t.medicoes THEN @ ELSE Append(@, nome)]

\* Counter.update([nome]): one more for nome, a new key enters at the end.
ContarMedicao(t, nome) ==
    [t EXCEPT !.medicoes = Put(t.medicoes, nome, Get(t.medicoes, nome, 0) + 1),
              !.ordem = IF nome \in DOMAIN t.medicoes THEN @ ELSE Append(@, nome)]

\* AtualizarEstatisticas with the sum guarded by "if temperatura:", which
\* skips a measurement of zero.
AtualizarEstatisticasSemZero(t, nome, temperatura) ==
    LET c == ContarMedicao(t, nome)
        z == temperatura.kind = "fin" /\ temperatura.mag = 0
    IN  [c EXCEPT
           !.minimas = Put(@, nome, PyMin(Get(@, nome, PosInf), temperatura)),
           !.maximas = Put(@, nome, PyMax(Get(@, nome, NegInf), temperatura)),
           !.somas   = IF z THEN @
                       ELSE Put(@, nome, FloatAdd(Get(@, nome, Zero), temperatura))]

\* _atualizar_estatisticas
AtualizarEstatisticas(t, nome, temperatura) ==
    LET c == ContarMedicao(t, nome)
    IN  [c EXCEPT
           !.minimas = Put(@, nome, PyMin(Get(@, nome, PosInf), temperatura)),
           !.maximas = Put(@, nome, PyMax(Get(@, nome, NegInf), temperatura)),
           !.somas   = Put(@, nome, FloatAdd(Get(@, nome, Zero), temperatura))]

\* sorted(resultados.items()): insertion of one (station, triple) item into
\* a list sorted by station (the stations of a dict are distinct, so the
\* comparison of two items is decided by the stations).
RECURSIVE Inserir(_, _)
Inserir(item, lista) ==
    IF lista = <<>> THEN <<item>>
    ELSE IF StrLt(item[1], Head(lista)[1]) THEN <<item>> \o lista
    ELSE <<Head(lista)>> \o Inserir(item, Tail(lista))

\* Sorted without the sort: the items in insertion order.
SemOrdenar(itens) == itens

RECURSIVE Sorted(_)
Sorted(itens) ==
    IF itens = <<>> THEN <<>> ELSE Inserir(Head(itens), Sorted(Tail(itens)))

\* f"{min_t:.1f}/{mean_t:.1f}/{max_t:.1f}" with mean_t = soma / qtd.
Formatar(min_t, soma, qtd, max_t) ==
    Fmt1f(min_t, 1) \o <<"/">> \o Fmt1f(soma, qtd) \o <<"/">> \o Fmt1f(max_t, 1)

\* The loop of _gerar_resultados over medicoes.items(): the items of
\* resultados in insertion order, stations counted 0 skipped.
RECURSIVE Resultados(_, _)
Resultados(t, estacoes) ==
    IF estacoes = <<>> THEN <<>>
    ELSE LET station == Head(estacoes)
             qtd == t.medicoes[station]
         IN  IF qtd = 0 THEN Resultados(t, Tail(estacoes))
             ELSE <<<<station,
                      Formatar(Get(t.minimas, station, PosInf),
                               Get(t.somas, station, Zero), qtd,
                               Get(t.maximas, station, NegInf))>>>>
                  \o Resultados(t, Tail(estacoes))

\* The maps after that loop: each read of somas, minimas and maximas is a
\* defaultdict read, which stores the default for a station it lacks.
RECURSIVE Lidas(_, _)
Lidas(t, estacoes) ==
    IF estacoes = <<>> THEN t
    ELSE LET station == Head(estacoes)
             u == IF t.medicoes[station] = 0 THEN t
                  ELSE [t EXCEPT !.somas   = Touch(@, station, Zero),
                                 !.minimas = Touch(@, station, PosInf),
                                 !.maximas = Touch(@, station, NegInf)]
         IN  Lidas(u, Tail(estacoes))

\* _gerar_resultados: the report, a list of (station, text) in sorted order.
GerarResultados(t) == Sorted(Resultados(t, t.ordem))

\* The loop of processar() over the rows of a whole text, from the maps t.
RECURSIVE Percorrer(_, _)
Percorrer(t, linhas) ==
    IF linhas = <<>> THEN t
    ELSE LET r == ParseRow(CsvRow(Head(linhas)))
         IN  Percorrer(IF r.ok THEN AtualizarEstatisticas(t, r.nome, r.temperatura)
                       ELSE t,
                       Tail(linhas))

\* processar() on a new instance over a text every line of which decodes.
Processar(linhas) == GerarResultados(Percorrer(TabelaVazia, linhas))

\* ------------------------------------------------------------------------
\* Inputs
\* ------------------------------------------------------------------------

\* The lines a file is drawn from.
Amostras ==
    { <<"A", ";", "1">>,
      <<" ", "A", " ", ";", "1", ".", "5", ";", "x">>,
      <<"a", ";", "-", "0", ".", "5">>,
      <<";", "2">>,
      <<"A", "B", ";", "+", "2">>,
      <<>>,
      <<"A">>,
      <<"B", ";", "x">>,
      <<"A", ";", "n", "a", "n">>,
      <<"A", ";", "1", "e", "1">>,
      <<"A", ";", "0">>,
      <<"A", ";", "-", "0">>,
      <<"B", ";", ByteInvalido>> }

Textos == UNION {[1..n -> Amostras] : n \in 0..MaxLinhas}

\* The file at the path: missing, present but not openable, or readable.
Arquivos ==
    {[acesso |-> "missing", linhas |-> <<>>]}
        \cup {[acesso |-> "denied", linhas |-> <<l>>] : l \in Amostras}
        \cup {[acesso |-> "ok", linhas |-> l] : l \in Textos}

\* ------------------------------------------------------------------------
\* State
\* ------------------------------------------------------------------------

VARIABLES
    arquivo,     \* the file at self.path: [acesso, linhas]
    estado,      \* where the run is: Idle, Opened, Streaming, Finalized, Failed
    construido,  \* whether __init__ has completed
    minimas,     \* self.minimas
    maximas,     \* self.maximas
    somas,       \* self.somas
    medicoes,    \* self.medicoes
    ordem,       \* insertion order of the keys of self.medicoes
    pos,         \* rows the loop of the current call has consumed
    avisos,      \* what logging.warning received: <<row, error>> per bad row
    aceitas,     \* the rows handed to _atualizar_estatisticas, in order
    erro,        \* the exception the run ended with, or "none"
    retornou,    \* whether the current call of processar() has returned
    relatorio,   \* the value it returned
    chamadas,    \* calls of processar() begun on this instance
    relatorios   \* the reports the completed calls returned

vars ==
    <<arquivo, estado, construido, minimas, maximas, somas, medicoes, ordem,
      pos, avisos, aceitas, erro, retornou, relatorio, chamadas, relatorios>>

tabelas == <<minimas, maximas, somas, medicoes, ordem>>

\* The four maps as one value.
Tabela ==
    [minimas |-> minimas, maximas |-> maximas, somas |-> somas,
     medicoes |-> medicoes, ordem |-> ordem]

Guardar(t) ==
    /\ minimas' = t.minimas
    /\ maximas' = t.maximas
    /\ somas' = t.somas
    /\ medicoes' = t.medicoes
    /\ ordem' = t.ordem

Init ==
    /\ arquivo \in Arquivos
    /\ estado = "Idle"
    /\ construido = FALSE
    /\ minimas = TabelaVazia.minimas
    /\ maximas = TabelaVazia.maximas
    /\ somas = TabelaVazia.somas
    /\ medicoes = TabelaVazia.medicoes
    /\ ordem = TabelaVazia.ordem
    /\ pos = 0
    /\ avisos = <<>>
    /\ aceitas = <<>>
    /\ erro = "none"
    /\ retornou = FALSE
    /\ relatorio = <<>>
    /\ chamadas = 0
    /\ relatorios = {}

\* ------------------------------------------------------------------------
\* Operations
\* ------------------------------------------------------------------------

\* The run ends with an exception: nothing is returned.
Falhar(e) ==
    /\ estado' = "Failed"
    /\ erro' = e

\* __init__: FileNotFoundError when the path does not exist, else the four
\* empty maps.
Construir ==
    /\ estado = "Idle"
    /\ ~construido
    /\ IF arquivo.acesso = "missing"
       THEN /\ Falhar("FileNotFoundError")
            /\ UNCHANGED <<construido, tabelas>>
       ELSE /\ construido' = TRUE
            /\ Guardar(TabelaVazia)
            /\ UNCHANGED <<estado, erro>>
    /\ UNCHANGED <<arquivo, pos, avisos, aceitas, retornou, relatorio,
                   chamadas, relatorios>>

\* processar() up to the open() and the csv reader: an open() that fails is
\* logged and raised again.
Abrir ==
    /\ estado = "Idle"
    /\ construido
    /\ chamadas' = IF chamadas = 0 THEN 1 ELSE chamadas
    /\ IF arquivo.acesso = "ok"
       THEN /\ estado' = "Opened"
            /\ UNCHANGED erro
       ELSE Falhar("PermissionError")
    /\ UNCHANGED <<arquivo, construido, tabelas, pos, avisos, aceitas,
                   retornou, relatorio, relatorios>>

\* The for statement starts iterating the reader.
Iterar ==
    /\ estado = "Opened"
    /\ estado' = "Streaming"
    /\ UNCHANGED <<arquivo, construido, tabelas, pos, avisos, aceitas, erro,
                   retornou, relatorio, chamadas, relatorios>>

\* The next line of the file, when the reader can yield it.
TemLinha == pos < Len(arquivo.linhas) /\ Decodable(arquivo.linhas[pos + 1])
Row == CsvRow(arquivo.linhas[pos + 1])

\* One pass of the loop body on a row that parses: the maps are updated.
LinhaValida ==
    /\ estado = "Streaming"
    /\ TemLinha
    /\ ParseRow(Row).ok
    /\ Guardar(AtualizarEstatisticas(Tabela, ParseRow(Row).nome,
                                     ParseRow(Row).temperatura))
    /\ aceitas' = Append(aceitas, Row)
    /\ pos' = pos + 1
    /\ UNCHANGED <<arquivo, estado, construido, avisos, erro, retornou,
                   relatorio, chamadas, relatorios>>

\* LinhaInvalida with an except clause that names ValueError alone: an
\* IndexError reaches the outer except and ends the run.
LinhaInvalidaSoValueError ==
    /\ estado = "Streaming"
    /\ TemLinha
    /\ ~ParseRow(Row).ok
    /\ IF ParseRow(Row).erro = "ValueError"
       THEN /\ avisos' = Append(avisos, <<Row, ParseRow(Row).erro>>)
            /\ pos' = pos + 1
            /\ UNCHANGED <<estado, erro>>
       ELSE /\ Falhar("IndexError")
            /\ UNCHANGED <<avisos, pos>>
    /\ UNCHANGED <<arquivo, construido, tabelas, aceitas, retornou,
                   relatorio, chamadas, relatorios>>

\* One pass of the loop body on a row _parse_row refuses: the except clause
\* logs the row and the loop continues.
LinhaInvalida ==
    /\ estado = "Streaming"
    /\ TemLinha
    /\ ~ParseRow(Row).ok
    /\ avisos' = Append(avisos, <<Row, ParseRow(Row).erro>>)
    /\ pos' = pos + 1
    /\ UNCHANGED <<arquivo, estado, construido, tabelas, aceitas, erro,
                   retornou, relatorio, chamadas, relatorios>>

\* FalhaDecodificacao with an outer except that logs and does not raise:
\* processar() goes on to return _gerar_resultados().
FalhaDecodificacaoEngolida ==
    /\ estado = "Streaming"
    /\ \E j \in (pos + 1)..Len(arquivo.linhas) : ~Decodable(arquivo.linhas[j])
    /\ relatorio' = GerarResultados(Tabela)
    /\ Guardar(Lidas(Tabela, ordem))
    /\ retornou' = TRUE
    /\ relatorios' = relatorios \cup {relatorio'}
    /\ estado' = "Finalized"
    /\ UNCHANGED <<arquivo, construido, pos, avisos, aceitas, erro, chamadas>>

\* The text layer decodes the file a buffer at a time: a line that is not
\* UTF-8 raises UnicodeDecodeError when its buffer is read, which is at that
\* line or at any line before it.  The outer except logs and raises again.
FalhaDecodificacao ==
    /\ estado = "Streaming"
    /\ \E j \in (pos + 1)..Len(arquivo.linhas) : ~Decodable(arquivo.linhas[j])
    /\ Falhar("UnicodeDecodeError")
    /\ UNCHANGED <<arquivo, construido, tabelas, pos, avisos, aceitas,
                   retornou, relatorio, chamadas, relatorios>>

\* A read of the file fails in the operating system (OSError) while the
\* reader asks for more: logged and raised again.
FalhaLeitura ==
    /\ estado = "Streaming"
    /\ Falhar("OSError")
    /\ UNCHANGED <<arquivo, construido, tabelas, pos, avisos, aceitas,
                   retornou, relatorio, chamadas, relatorios>>

\* Finalizar with the return inside the loop: it returns after any row.
FinalizarCedo ==
    /\ estado = "Streaming"
    /\ relatorio' = GerarResultados(Tabela)
    /\ Guardar(Lidas(Tabela, ordem))
    /\ retornou' = TRUE
    /\ relatorios' = relatorios \cup {relatorio'}
    /\ estado' = "Finalized"
    /\ UNCHANGED <<arquivo, construido, pos, avisos, aceitas, erro, chamadas>>

\* The reader is exhausted: processar() returns _gerar_resultados().
Finalizar ==
    /\ estado = "Streaming"
    /\ pos = Len(arquivo.linhas)
    /\ relatorio' = GerarResultados(Tabela)
    /\ Guardar(Lidas(Tabela, ordem))
    /\ retornou' = TRUE
    /\ relatorios' = relatorios \cup {relatorio'}
    /\ estado' = "Finalized"
    /\ UNCHANGED <<arquivo, construido, pos, avisos, aceitas, erro, chamadas>>

\* processar() is called again on the same instance, after a call that
\* returned or raised: nothing of the instance is reset.
Reprocessar ==
    /\ estado \in {"Finalized", "Failed"}
    /\ construido
    /\ chamadas < MaxChamadas
    /\ chamadas' = chamadas + 1
    /\ estado' = "Idle"
    /\ pos' = 0
    /\ erro' = "none"
    /\ retornou' = FALSE
    /\ relatorio' = <<>>
    /\ UNCHANGED <<arquivo, construido, tabelas, avisos, aceitas, relatorios>>

\* The program: one instance, one call of processar().
Next ==
    \/ Construir
    \/ Abrir
    \/ Iterar
    \/ LinhaValida
    \/ LinhaInvalida
    \/ FalhaDecodificacao
    \/ FalhaLeitura
    \/ Finalizar

Spec == Init /\ [][Next]_vars

\* The instance used for several calls of processar().
NextRerun == Next \/ Reprocessar

SpecRerun == Init /\ [][NextRerun]_vars

\* ------------------------------------------------------------------------
\* Properties
\* ------------------------------------------------------------------------

\* The rows among the first n lines that _parse_row accepts, by index.
Validas(n) == {i \in 1..n : ParseRow(CsvRow(arquivo.linhas[i])).ok}
Chave(i) == ParseRow(CsvRow(arquivo.linhas[i])).nome
Valor(i) == ParseRow(CsvRow(arquivo.linhas[i])).temperatura
ChavesValidas(n) == {Chave(i) : i \in Validas(n)}

\* C1: a row that _parse_row refuses never aborts processar(): the step
\* that consumes it logs the row, leaves the four maps as they were and
\* stays in the loop; and a file of nothing but refused rows ends in an
\* empty report.
C1_LinhaInvalidaTolerada ==
    /\ [][ ( /\ estado = "Streaming"
             /\ TemLinha
             /\ ~ParseRow(Row).ok
             /\ erro' \notin {"OSError", "UnicodeDecodeError"} )
           => ( /\ tabelas' = tabelas
                /\ avisos' = Append(avisos, <<Row, ParseRow(Row).erro>>)
                /\ aceitas' = aceitas
                /\ estado' = "Streaming"
                /\ erro' = "none"
                /\ pos' = pos + 1 ) ]_vars
    /\ [](( /\ estado = "Streaming"
            /\ pos = Len(arquivo.linhas)
            /\ Validas(pos) = {} ) => ENABLED Finalizar)
    /\ [](( /\ estado = "Finalized"
            /\ Validas(Len(arquivo.linhas)) = {} )
          => (retornou /\ relatorio = <<>> /\ erro = "none"))

C1_Witness ==
    /\ estado = "Finalized"
    /\ Len(arquivo.linhas) >= 2
    /\ Len(avisos) = Len(arquivo.linhas)
    /\ \E i \in 1..Len(avisos) : avisos[i][2] = "IndexError"
    /\ \E i \in 1..Len(avisos) : avisos[i][2] = "ValueError"
    /\ relatorio = <<>>

\* C2: a fatal source failure never yields a report: a missing or unopenable
\* file fails before any row is parsed or aggregated, a failed run has
\* returned nothing, and a report is returned only by a run that opened the
\* file and consumed every line of it.
C2_FalhaFatalSemRelatorio ==
    /\ (estado = "Failed") => (~retornou /\ relatorio = <<>> /\ relatorios = {})
    /\ (arquivo.acesso # "ok")
         => ( /\ ~retornou
              /\ pos = 0
              /\ aceitas = <<>>
              /\ avisos = <<>>
              /\ DOMAIN medicoes = {}
              /\ estado \in {"Idle", "Failed"} )
    /\ (arquivo.acesso = "missing" /\ estado = "Failed") => erro = "FileNotFoundError"
    /\ (arquivo.acesso = "denied" /\ estado = "Failed") => erro = "PermissionError"
    /\ (\E i \in 1..Len(arquivo.linhas) : ~Decodable(arquivo.linhas[i])) => ~retornou
    /\ retornou
         => ( /\ estado = "Finalized"
              /\ erro = "none"
              /\ pos = Len(arquivo.linhas) )

C2_Witness ==
    /\ estado = "Failed"
    /\ erro = "UnicodeDecodeError"
    /\ Len(aceitas) >= 2
    /\ ~retornou

\* C3: after any prefix of the input, and when the report is produced, the
\* stored count of every key is the number of rows of that prefix with that
\* trimmed key that passed parsing.
C3_ContagemExata ==
    /\ \A k \in DOMAIN medicoes \cup ChavesValidas(pos) :
           Get(medicoes, k, 0) = Cardinality({i \in Validas(pos) : Chave(i) = k})
    /\ retornou => pos = Len(arquivo.linhas)

C3_Witness ==
    /\ retornou
    /\ avisos # <<>>
    /\ \E k \in DOMAIN medicoes : medicoes[k] >= 2

\* The values contributed to key k by the rows consumed so far.
Contribuidos(k) == {Valor(i) : i \in {j \in Validas(pos) : Chave(j) = k}}

\* C4: for every key of the report and every valid measurement v of that
\* key, minimum <= v <= maximum, and the minimum and the maximum are each
\* one of the values contributed (no +inf or -inf seed survives).
C4_MinimoMaximo ==
    retornou =>
        \A k \in DOMAIN medicoes :
            /\ \A v \in Contribuidos(k) :
                   FloatLe(minimas[k], v) /\ FloatLe(v, maximas[k])
            /\ minimas[k] \in Contribuidos(k)
            /\ maximas[k] \in Contribuidos(k)

\* The stations of a report, in its order.
Estacoes(rel) == [i \in 1..Len(rel) |-> rel[i][1]]

\* C5: the report lists its keys in strictly ascending code point order, no
\* key twice, and its keys are exactly the keys of the table counted above
\* 0, one per distinct trimmed key that had a valid row.
C5_RelatorioOrdenado ==
    retornou =>
        /\ \A i, j \in 1..Len(relatorio) :
               i < j => StrLt(relatorio[i][1], relatorio[j][1])
        /\ {relatorio[i][1] : i \in 1..Len(relatorio)}
               = {k \in DOMAIN medicoes : medicoes[k] > 0}
        /\ {relatorio[i][1] : i \in 1..Len(relatorio)}
               = ChavesValidas(Len(arquivo.linhas))
        /\ Len(relatorio) = Cardinality(ChavesValidas(Len(arquivo.linhas)))

C5_Witness ==
    /\ retornou
    /\ Len(relatorio) >= 3
    /\ Estacoes(relatorio) # ordem

\* A second field that is a decimal number: an optional sign, digits, and
\* an optional fractional part.
IsDecimal(s) ==
    LET u == IF s # <<>> /\ Head(s) \in {"+", "-"} THEN Tail(s) ELSE s
        p == Find(u, ".", 1)
        int == IF p = 0 THEN u ELSE SubSeq(u, 1, p - 1)
        frac == IF p = 0 THEN <<>> ELSE SubSeq(u, p + 1, Len(u))
    IN  int # <<>> /\ AllDigits(int) /\ AllDigits(frac)

\* C6: a row is accepted only if it has at least 2 fields and its second
\* field is a decimal number; a shorter row fails as a missing field, a row
\* with any other second field as an invalid number, and neither reaches the
\* aggregation update.
C6_ContratoDoParser ==
    /\ \A i \in 1..Len(aceitas) :
           Len(aceitas[i]) >= 2 /\ IsDecimal(aceitas[i][2])
    /\ \A i \in 1..Len(avisos) :
           IF Len(avisos[i][1]) < 2 THEN avisos[i][2] = "IndexError"
           ELSE avisos[i][2] = "ValueError" /\ ~IsDecimal(avisos[i][1][2])
    /\ Len(aceitas) + Len(avisos) = pos

\* C7: every completed call of processar() over the unchanged file returns
\* the same report, a repeated call on the same instance and a call after a
\* call that failed part-way included.
C7_MesmoRelatorio == Cardinality(relatorios) <= 1

\* The orders in which n lines can be arranged.
Permutacoes(n) ==
    {p \in [1..n -> 1..n] : \A i, j \in 1..n : p[i] = p[j] => i = j}

\* C8: two texts with the same multiset of records give identical reports:
\* the report of the file is the report of every rearrangement of its lines.
C8_InvarianciaPermutacao ==
    retornou =>
        \A p \in Permutacoes(Len(arquivo.linhas)) :
            Processar([i \in 1..Len(arquivo.linhas) |-> arquivo.linhas[p[i]]])
                = relatorio

\* C9 as stated: the run moves Idle -> Opened -> Streaming -> Finalized,
\* Streaming repeats once per line, a parse error keeps the state, Finalized
\* follows only the end of the stream, Failed is entered from Idle or Opened
\* only, and nothing is processed after Failed or Finalized.
C9_MaquinaOriginal ==
    [][ /\ <<estado, estado'>> \in
             { <<"Idle", "Idle">>, <<"Idle", "Opened">>, <<"Opened", "Streaming">>,
               <<"Streaming", "Streaming">>, <<"Streaming", "Finalized">>,
               <<"Idle", "Failed">>, <<"Opened", "Failed">> }
        /\ (estado = "Streaming" /\ estado' = "Streaming") => pos' = pos + 1
        /\ (estado = "Streaming" /\ estado' = "Finalized")
             => pos = Len(arquivo.linhas)
      ]_vars

\* C9, amended: as above, with Failed entered from Idle or Opened (the file
\* is missing or cannot be opened) and also from Streaming (a read or a
\* decoding fails at any line).
C9_MaquinaDeEstados ==
    [][ /\ <<estado, estado'>> \in
             { <<"Idle", "Idle">>, <<"Idle", "Opened">>, <<"Opened", "Streaming">>,
               <<"Streaming", "Streaming">>, <<"Streaming", "Finalized">>,
               <<"Idle", "Failed">>, <<"Opened", "Failed">>,
               <<"Streaming", "Failed">> }
        /\ (estado = "Idle" /\ estado' = "Idle") => (~construido /\ construido')
        /\ (estado = "Streaming" /\ estado' = "Streaming")
             => (pos' = pos + 1 /\ erro' = "none")
        /\ (estado = "Streaming" /\ estado' = "Finalized")
             => (pos = Len(arquivo.linhas) /\ pos' = pos)
        /\ (estado' = "Failed")
             => (pos' = pos /\ tabelas' = tabelas /\ erro' # "none")
        /\ (estado = "Idle" /\ estado' = "Failed")
             => erro' \in {"FileNotFoundError", "PermissionError"}
        /\ (estado = "Streaming" /\ estado' = "Failed")
             => erro' \in {"UnicodeDecodeError", "OSError"}
      ]_vars

C9_Witness ==
    /\ estado = "Failed"
    /\ erro = "UnicodeDecodeError"
    /\ pos >= 1
    /\ avisos # <<>>

\* C10: between line steps the four maps have the same key set, which is
\* the set of trimmed keys of the rows parsed so far, every count is at
\* least 1, no step removes a key, and producing the report adds no key and
\* changes no stored value.
C10_ChavesDasTabelas ==
    /\ [](/\ DOMAIN minimas = DOMAIN medicoes
          /\ DOMAIN maximas = DOMAIN medicoes
          /\ DOMAIN somas = DOMAIN medicoes
          /\ DOMAIN medicoes = ChavesValidas(pos)
          /\ {ordem[i] : i \in 1..Len(ordem)} = DOMAIN medicoes
          /\ \A k \in DOMAIN medicoes : medicoes[k] >= 1)
    /\ [][ /\ DOMAIN medicoes \subseteq DOMAIN medicoes'
           /\ DOMAIN minimas \subseteq DOMAIN minimas'
           /\ DOMAIN maximas \subseteq DOMAIN maximas'
           /\ DOMAIN somas \subseteq DOMAIN somas'
           /\ (retornou' /\ ~retornou) => tabelas' = tabelas ]_vars

C10_Witness ==
    /\ retornou
    /\ Cardinality(DOMAIN medicoes) >= 2
    /\ Len(aceitas) = 3

=============================================================================
